---- MODULE Spec2Model ----
(***************************************************************************)
(* Model of the retrieval-augmented chat engine of ai-pdf-assistant:       *)
(* the in-memory SessionRepository (guarded by one sync.RWMutex), the      *)
(* lexical ranker VectorSearch.FindRelevantChunks and the SSE streaming    *)
(* handler ChatHandler.Stream with splitIntoChunks.                        *)
(***************************************************************************)
EXTENDS Integers, Sequences, FiniteSets, TLC

VARIABLES
    sessions,   \* r.sessions: map from session id to *proto.ChatSession
    used,       \* session ids uuid.New() has already handed out
    mutex,      \* r.mutex: [writer, readers]
    pc,         \* per request goroutine: where it is inside a repository call
    local,      \* per request goroutine: arguments and locals of the call
    now,        \* time.Now().Unix()
    nextId,     \* number of ChatMessage objects allocated so far
    lockLog,    \* history: AddMessage calls in the order they took r.mutex
    acked,      \* history: messages whose AddMessage returned nil
    cleared,    \* history: sessions on which ClearMessages succeeded
    chunks,     \* FindRelevantChunks: the pooled chunks (their texts)
    query,      \* FindRelevantChunks: the query string
    topK,       \* FindRelevantChunks: the topK argument
    relevant,   \* FindRelevantChunks: the returned chunks, as pool positions
    rankPc,     \* FindRelevantChunks: "input" before the call, "done" after
    streamPc,   \* ChatHandler.Stream: where the handler is
    streamSid,  \* ChatHandler.Stream: session_id of the request
    resp,       \* ChatHandler.Stream: the ChatResponse AskQuestion returned
    words,      \* ChatHandler.Stream: the chunks still to be sent as tokens
    events,     \* ChatHandler.Stream: the SSE events written so far
    userMessage,   \* AskQuestion: Id of the user message this turn stored
    history,    \* AskQuestion: the history built for AnswerQuestion
    held,       \* AskQuestion: the session object it holds, once that
                \* object is no longer in r.sessions
    allChunks,  \* AskQuestion: the chunks pooled for ranking
    docsReturned, \* the slice GetDocuments returned last, as its caller
                \* holds it: [sid, snapshot, docs, shared]
    aiCalls,    \* history: calls of aiService.AnswerQuestion by the request
    selectedChunks, \* GetCitations: the chunks argument
    citations,  \* GetCitations: the returned []Citation
    citePc,     \* GetCitations: "input" before the call, "done" after
    pdfText,    \* chunkText: the text argument
    maxChunkSize,  \* chunkText: the maxChunkSize argument
    protoChunks,   \* ProcessPDF: the chunks built from chunkText's result
    chunkPc,    \* chunkText: "input" before the call, "done" after
    provider,   \* AnswerQuestion: the AIService implementation called
    aiContext,  \* AnswerQuestion: the context argument, as words
    aiQuestion, \* AnswerQuestion: the question argument, as words
    aiHistory,  \* AnswerQuestion: the history argument
    backendReply,  \* the message the remote backend answers with, as words
    promptHistory, \* the history entries in the request sent to the backend
    aiAnswer,   \* AnswerQuestion: the returned answer, as words
    answerFound,   \* AnswerQuestion: the returned flag
    aiErr,      \* AnswerQuestion: whether an error was returned
    aiPc,       \* AnswerQuestion: "input" before the call, "done" after
    groqKey,    \* the environment: GROQ_API_KEY
    openaiKey,  \* the environment: OPENAI_API_KEY
    bootKeys,   \* history: the two keys as main read them
    aiService,  \* main: the global aiService
    mainPc,     \* main: "start", "serving" or "exited"
    served      \* chat requests answered since the start

storeVars == <<sessions, used, mutex, pc, local, now, nextId,
               lockLog, acked, cleared>>

rankVars == <<chunks, query, topK, relevant, rankPc>>

askVars == <<userMessage, history, held, allChunks, aiCalls>>

streamVars == <<streamPc, streamSid, resp, words, events, askVars>>

citeVars == <<selectedChunks, citations, citePc>>

\* the calls of pure functions under observation
textVars == <<pdfText, maxChunkSize, protoChunks, chunkPc>>

aiVars == <<provider, aiContext, aiQuestion, aiHistory, backendReply,
           promptHistory, aiAnswer, answerFound, aiErr, aiPc>>

mainVars == <<groqKey, openaiKey, bootKeys, aiService, mainPc, served>>

listVars == <<docsReturned>>

pureVars == <<citeVars, textVars, aiVars, mainVars>>

callVars == <<citeVars, textVars, aiVars, mainVars, listVars>>

vars == <<storeVars, rankVars, streamVars, callVars>>

----------------------------------------------------------------------------
(* Bounds of the model *)

Procs == {"p1", "p2"}
SessionIds == {"s1", "s2"}
DocIds == {"d1", "d2"}
Roles == {"user", "assistant"}
MaxTime == 2
MaxMsgs == 3
MaxDuration == 3

\* resolution of a time.Duration: this many units to the second
UnitsPerSecond == 2

None == "none"

----------------------------------------------------------------------------
(* Helpers on sequences *)

Range(s) == {s[i] : i \in 1..Len(s)}

IsPrefix(s, t) == Len(s) <= Len(t) /\ SubSeq(t, 1, Len(s)) = s

\* s[:i] ++ s[i+1:] for a 1-based index i
\* the elements before position i are dropped with it
RemoveAtAndBefore(s, i) == SubSeq(s, i + 1, Len(s))

RemoveAt(s, i) == SubSeq(s, 1, i - 1) \o SubSeq(s, i + 1, Len(s))

Exists(id) == id \in DOMAIN sessions

\* the error is lost: the caller is told the call succeeded
SessionNotFoundAsNil(op) == [op |-> op, err |-> "ok", count |-> 0]

\* return fmt.Errorf("session not found: %s", sessionID)
SessionNotFound(op) == [op |-> op, err |-> "NotFound", count |-> 0]

\* a *ChatSession with nothing in it
NoSession ==
    [Document |-> None, Documents |-> << >>, Cap |-> 0, Messages |-> << >>,
     LastActivity |-> 0]

\* no slice returned yet
NoDocuments == [sid |-> None, snapshot |-> << >>, docs |-> << >>,
                shared |-> FALSE]

NoLocal == [sid |-> None, doc |-> None, dur |-> 0,
            msg |-> [Id |-> 0, Content |-> 0, Role |-> None, Timestamp |-> 0],
            old |-> <<>>, op |-> None, err |-> None, count |-> 0]

----------------------------------------------------------------------------
(* sync.RWMutex *)

FreeMutex == [writer |-> None, readers |-> {}]

\* r.mutex.Lock(): blocks while a writer or any reader holds the mutex
LockNoExclusion(p) == mutex' = [mutex EXCEPT !.writer = p]

Lock(p) ==
    /\ mutex.writer = None
    /\ mutex.readers = {}
    /\ mutex' = [mutex EXCEPT !.writer = p]

\* r.mutex.RLock(): blocks while a writer holds the mutex
RLock(p) ==
    /\ mutex.writer = None
    /\ mutex' = [mutex EXCEPT !.readers = @ \cup {p}]

\* defer r.mutex.Unlock(): runs once the method has its return value; the
\* caller then takes the value
Unlock(p) ==
    /\ pc[p] = "Unlock"
    /\ mutex' = [mutex EXCEPT !.writer = IF @ = p THEN None ELSE @]
    /\ pc' = [pc EXCEPT ![p] = "idle"]
    /\ local' = [local EXCEPT ![p] = NoLocal]
    /\ UNCHANGED <<rankVars, streamVars, callVars>>
    /\ UNCHANGED <<sessions, used, now, nextId, lockLog, acked, cleared>>

\* defer r.mutex.RUnlock()
RUnlock(p) ==
    /\ pc[p] = "RUnlock"
    /\ mutex' = [mutex EXCEPT !.readers = @ \ {p}]
    /\ pc' = [pc EXCEPT ![p] = "idle"]
    /\ local' = [local EXCEPT ![p] = NoLocal]
    /\ UNCHANGED <<rankVars, streamVars, callVars>>
    /\ UNCHANGED <<sessions, used, now, nextId, lockLog, acked, cleared>>

\* a request goroutine enters a repository method
Enter(p, label, args) ==
    /\ pc[p] = "idle"
    /\ pc' = [pc EXCEPT ![p] = label]
    /\ local' = [local EXCEPT ![p] = args]

\* the method evaluates its return statement; the deferred unlock is pending
Return(p, label, v) ==
    /\ pc' = [pc EXCEPT ![p] = label]
    /\ local' = [local EXCEPT ![p] =
          [NoLocal EXCEPT !.sid = local[p].sid, !.doc = local[p].doc,
                          !.dur = local[p].dur, !.msg = local[p].msg,
                          !.op = v.op, !.err = v.err, !.count = v.count]]
    /\ UNCHANGED mutex

----------------------------------------------------------------------------
(* SessionRepository *)

InitStore ==
    /\ sessions = << >>
    /\ used = {}
    /\ mutex = FreeMutex
    /\ pc = [p \in Procs |-> "idle"]
    /\ local = [p \in Procs |-> NoLocal]
    /\ now = 1
    /\ nextId = 0
    /\ lockLog = << >>
    /\ acked = {}
    /\ cleared = {}

\* no ranking call is under observation
InitRankIdle ==
    /\ chunks = << >>
    /\ query = << >>
    /\ topK = 0
    /\ relevant = << >>
    /\ rankPc = "idle"

\* no streaming request has arrived
InitStream ==
    /\ streamPc = "idle"
    /\ streamSid = None
    /\ resp = [Status |-> None, Code |-> None, Response |-> << >>]
    /\ words = << >>
    /\ events = << >>
    /\ userMessage = 0
    /\ history = << >>
    /\ held = NoSession
    /\ allChunks = << >>
    /\ aiCalls = 0

\* no GetCitations call is under observation
InitCiteIdle ==
    /\ selectedChunks = << >>
    /\ citations = << >>
    /\ citePc = "idle"

\* no chunkText call is under observation
InitTextIdle ==
    /\ pdfText = << >>
    /\ maxChunkSize = 0
    /\ protoChunks = << >>
    /\ chunkPc = "idle"

\* no AnswerQuestion call is under observation
InitAIIdle ==
    /\ provider = None
    /\ aiContext = << >>
    /\ aiQuestion = << >>
    /\ aiHistory = << >>
    /\ backendReply = << >>
    /\ promptHistory = << >>
    /\ aiAnswer = << >>
    /\ answerFound = FALSE
    /\ aiErr = FALSE
    /\ aiPc = "idle"

\* no process start is under observation
InitMainIdle ==
    /\ groqKey = ""
    /\ openaiKey = ""
    /\ bootKeys = << >>
    /\ aiService = None
    /\ mainPc = "idle"
    /\ served = 0

InitListIdle == docsReturned = NoDocuments

InitCallsIdle ==
    InitCiteIdle /\ InitTextIdle /\ InitAIIdle /\ InitMainIdle /\ InitListIdle

Init == InitStore /\ InitRankIdle /\ InitStream /\ InitCallsIdle

\* the clock behind time.Now().Unix()
TickUntil(max) ==
    /\ now < max
    /\ now' = now + 1
    /\ UNCHANGED <<rankVars, streamVars, callVars>>
    /\ UNCHANGED <<sessions, used, mutex, pc, local, nextId,
                   lockLog, acked, cleared>>

Tick == TickUntil(MaxTime)

\* Create: r.mutex.Lock()
CreateLock(p, d) ==
    /\ Enter(p, "Create", [NoLocal EXCEPT !.doc = d])
    /\ Lock(p)
    /\ UNCHANGED <<rankVars, streamVars, callVars>>
    /\ UNCHANGED <<sessions, used, now, nextId, lockLog, acked, cleared>>

\* Create: build the session under a fresh uuid, store it
Create(p) ==
    /\ pc[p] = "Create"
    /\ \E id \in SessionIds \ used :
          /\ sessions' = sessions @@
                (id :> [Document |-> local[p].doc,
                        Documents |-> <<local[p].doc>>,
                        Cap |-> 1,
                        Messages |-> << >>,
                        LastActivity |-> now])
          /\ used' = used \cup {id}
          /\ Return(p, "Unlock", [op |-> "Create", err |-> "ok", count |-> 0])
    /\ UNCHANGED <<rankVars, streamVars, callVars>>
    /\ UNCHANGED <<now, nextId, lockLog, acked, cleared>>

\* Get: r.mutex.RLock()
GetLock(p, id) ==
    /\ Enter(p, "Get", [NoLocal EXCEPT !.sid = id])
    /\ RLock(p)
    /\ UNCHANGED <<rankVars, streamVars, callVars>>
    /\ UNCHANGED <<sessions, used, now, nextId, lockLog, acked, cleared>>

\* Get: look the session up
Get(p) ==
    /\ pc[p] = "Get"
    /\ Return(p, "RUnlock",
              IF Exists(local[p].sid)
              THEN [op |-> "Get", err |-> "ok", count |-> 0]
              ELSE SessionNotFound("Get"))
    /\ UNCHANGED <<rankVars, streamVars, callVars>>
    /\ UNCHANGED <<sessions, used, now, nextId, lockLog, acked, cleared>>

\* AddMessage: r.mutex.Lock(); the caller passes a fresh *proto.ChatMessage
\* with empty Id and zero Timestamp
AddMessageLock(p, id, role) ==
    /\ nextId < MaxMsgs
    /\ nextId' = nextId + 1
    /\ Enter(p, "AddMessage",
             [NoLocal EXCEPT !.sid = id,
                             !.msg = [Id |-> 0, Content |-> nextId + 1,
                                      Role |-> role, Timestamp |-> 0]])
    /\ Lock(p)
    /\ lockLog' = Append(lockLog, [sid |-> id, n |-> nextId + 1])
    /\ UNCHANGED <<rankVars, streamVars, callVars>>
    /\ UNCHANGED <<sessions, used, now, acked, cleared>>

\* AddMessage: session lookup, message.Id and message.Timestamp defaults,
\* and the read of session.Messages that append() starts from
AddMessageLookup(p) ==
    /\ pc[p] = "AddMessage"
    /\ IF ~Exists(local[p].sid)
       THEN /\ Return(p, "Unlock", SessionNotFound("AddMessage"))
       ELSE /\ pc' = [pc EXCEPT ![p] = "AddMessageAppend"]
            /\ local' = [local EXCEPT
                  ![p].msg.Id = IF @ = 0 THEN local[p].msg.Content ELSE @,
                  ![p].msg.Timestamp = IF @ = 0 THEN now ELSE @,
                  ![p].old = sessions[local[p].sid].Messages]
            /\ UNCHANGED mutex
    /\ UNCHANGED <<rankVars, streamVars, callVars>>
    /\ UNCHANGED <<sessions, used, now, nextId, lockLog, acked, cleared>>

\* the slice AddMessage stores back into session.Messages
AppendedDropsOld(old, msg) == <<msg>>

Appended(old, msg) == Append(old, msg)

\* AddMessage: session.Messages = append(...), LastActivity
AddMessageAppend(p) ==
    /\ pc[p] = "AddMessageAppend"
    /\ IF Exists(local[p].sid)
       THEN sessions' = [sessions EXCEPT
               ![local[p].sid].Messages = Appended(local[p].old, local[p].msg),
               ![local[p].sid].LastActivity = now]
       ELSE UNCHANGED sessions
    /\ acked' = acked \cup {local[p].msg.Content}
    /\ Return(p, "Unlock", [op |-> "AddMessage", err |-> "ok", count |-> 0])
    /\ UNCHANGED <<rankVars, streamVars, callVars>>
    /\ UNCHANGED <<used, now, nextId, lockLog, cleared>>

\* ClearMessages: r.mutex.Lock()
ClearMessagesLock(p, id) ==
    /\ Enter(p, "ClearMessages", [NoLocal EXCEPT !.sid = id])
    /\ Lock(p)
    /\ UNCHANGED <<rankVars, streamVars, callVars>>
    /\ UNCHANGED <<sessions, used, now, nextId, lockLog, acked, cleared>>

\* what ClearMessages leaves of a session
ClearedDropsDocuments(s, t) ==
    [s EXCEPT !.Messages = << >>, !.Documents = << >>, !.LastActivity = t]

Cleared(s, t) == [s EXCEPT !.Messages = << >>, !.LastActivity = t]

\* ClearMessages: lookup, reset the messages, LastActivity
ClearMessages(p) ==
    /\ pc[p] = "ClearMessages"
    /\ IF ~Exists(local[p].sid)
       THEN /\ Return(p, "Unlock", SessionNotFound("ClearMessages"))
            /\ UNCHANGED <<sessions, cleared>>
       ELSE /\ sessions' = [sessions EXCEPT
                  ![local[p].sid] = Cleared(@, now)]
            /\ cleared' = cleared \cup {local[p].sid}
            /\ Return(p, "Unlock", [op |-> "ClearMessages", err |-> "ok", count |-> 0])
    /\ UNCHANGED <<rankVars, streamVars, callVars>>
    /\ UNCHANGED <<used, now, nextId, lockLog, acked>>

\* AddDocument: r.mutex.Lock()
AddDocumentLock(p, id, d) ==
    /\ Enter(p, "AddDocument", [NoLocal EXCEPT !.sid = id, !.doc = d])
    /\ Lock(p)
    /\ UNCHANGED <<rankVars, streamVars, callVars>>
    /\ UNCHANGED <<sessions, used, now, nextId, lockLog, acked, cleared>>

\* no attached document is ever taken for the new one
HasDocumentNever(docs, d) == FALSE

\* for _, doc := range session.Documents { if doc.Id == document.Id
HasDocument(docs, d) == d \in Range(docs)

\* the slice the caller of GetDocuments holds and session.Documents of
\* that session are windows on one backing array
Aliased(sid) == docsReturned.shared /\ docsReturned.sid = sid

\* what a held slice shows once slot k of its backing array is written
WrittenAt(held_docs, k, d) ==
    [j \in 1..Len(held_docs) |-> IF j = k THEN d ELSE held_docs[j]]

\* what a held slice shows once append(docs[:i], docs[i+1:]...) has moved
\* the elements after i one slot down in the backing array
ShiftedFrom(held_docs, docs, i) ==
    [j \in 1..Len(held_docs) |->
        IF j >= i /\ j < Len(docs) THEN docs[j + 1] ELSE held_docs[j]]

\* the capacity append gives the new backing array of a full slice
Grown(cap) == IF cap = 0 THEN 1 ELSE 2 * cap

\* AddDocument: lookup, duplicate check, append (in place while the
\* backing array has room, into a new array otherwise), LastActivity
AddDocument(p) ==
    /\ pc[p] = "AddDocument"
    /\ IF ~Exists(local[p].sid)
       THEN /\ Return(p, "Unlock", SessionNotFound("AddDocument"))
            /\ UNCHANGED sessions
            /\ UNCHANGED docsReturned
       ELSE IF HasDocument(sessions[local[p].sid].Documents, local[p].doc)
       THEN /\ Return(p, "Unlock", [op |-> "AddDocument", err |-> "AlreadyAttached",
                          count |-> 0])
            /\ UNCHANGED sessions
            /\ UNCHANGED docsReturned
       ELSE LET docs == sessions[local[p].sid].Documents
                cap == sessions[local[p].sid].Cap
            IN  /\ sessions' = [sessions EXCEPT
                      ![local[p].sid].Documents = Append(@, local[p].doc),
                      ![local[p].sid].Cap =
                          IF Len(docs) < cap THEN cap ELSE Grown(cap),
                      ![local[p].sid].LastActivity = now]
                /\ docsReturned' =
                      IF ~Aliased(local[p].sid) THEN docsReturned
                      ELSE IF Len(docs) < cap
                      THEN [docsReturned EXCEPT
                              !.docs = WrittenAt(@, Len(docs) + 1, local[p].doc)]
                      ELSE [docsReturned EXCEPT !.shared = FALSE]
                /\ Return(p, "Unlock", [op |-> "AddDocument", err |-> "ok",
                              count |-> 0])
    /\ UNCHANGED <<rankVars, streamVars, pureVars>>
    /\ UNCHANGED <<used, now, nextId, lockLog, acked, cleared>>

\* GetDocuments: r.mutex.RLock()
GetDocumentsLock(p, id) ==
    /\ Enter(p, "GetDocuments", [NoLocal EXCEPT !.sid = id])
    /\ RLock(p)
    /\ UNCHANGED <<rankVars, streamVars, callVars>>
    /\ UNCHANGED <<sessions, used, now, nextId, lockLog, acked, cleared>>

\* GetDocuments: lookup, return session.Documents, the slice itself
GetDocuments(p) ==
    /\ pc[p] = "GetDocuments"
    /\ Return(p, "RUnlock",
              IF Exists(local[p].sid)
              THEN [op |-> "GetDocuments", err |-> "ok",
                    count |-> Len(sessions[local[p].sid].Documents)]
              ELSE SessionNotFound("GetDocuments"))
    /\ docsReturned' =
          IF Exists(local[p].sid)
          THEN [sid |-> local[p].sid,
                snapshot |-> sessions[local[p].sid].Documents,
                docs |-> sessions[local[p].sid].Documents,
                shared |-> TRUE]
          ELSE NoDocuments
    /\ UNCHANGED <<rankVars, streamVars, pureVars>>
    /\ UNCHANGED <<sessions, used, now, nextId, lockLog, acked, cleared>>

\* RemoveDocument: r.mutex.Lock()
RemoveDocumentLock(p, id, d) ==
    /\ Enter(p, "RemoveDocument", [NoLocal EXCEPT !.sid = id, !.doc = d])
    /\ Lock(p)
    /\ UNCHANGED <<rankVars, streamVars, callVars>>
    /\ UNCHANGED <<sessions, used, now, nextId, lockLog, acked, cleared>>

\* RemoveDocument: lookup, cut the first document with that id, in place
RemoveDocument(p) ==
    /\ pc[p] = "RemoveDocument"
    /\ IF ~Exists(local[p].sid)
       THEN /\ Return(p, "Unlock", SessionNotFound("RemoveDocument"))
            /\ UNCHANGED <<sessions, docsReturned>>
       ELSE LET docs == sessions[local[p].sid].Documents
                hits == {i \in 1..Len(docs) : docs[i] = local[p].doc}
            IN  IF hits = {}
                THEN /\ Return(p, "Unlock", [op |-> "RemoveDocument", err |-> "DocNotFound",
                                   count |-> 0])
                     /\ UNCHANGED <<sessions, docsReturned>>
                ELSE LET i == CHOOSE k \in hits : \A j \in hits : k <= j
                     IN  /\ sessions' = [sessions EXCEPT
                               ![local[p].sid].Documents = RemoveAt(docs, i),
                               ![local[p].sid].LastActivity = now]
                         /\ docsReturned' =
                               IF Aliased(local[p].sid)
                               THEN [docsReturned EXCEPT
                                       !.docs = ShiftedFrom(@, docs, i)]
                               ELSE docsReturned
                         /\ Return(p, "Unlock", [op |-> "RemoveDocument", err |-> "ok",
                                       count |-> 0])
    /\ UNCHANGED <<rankVars, streamVars, pureVars>>
    /\ UNCHANGED <<used, now, nextId, lockLog, acked, cleared>>

\* AskQuestion keeps the *ChatSession that Get returned: when the session
\* leaves r.sessions while the history is still to be built, the object
\* stays as it is at that moment, out of reach of every repository call
Detach(ids) ==
    /\ held' = IF streamPc = "AskHistory" /\ streamSid \in ids
                  /\ Exists(streamSid)
               THEN sessions[streamSid]
               ELSE held
    /\ UNCHANGED <<streamPc, streamSid, resp, words, events,
                   userMessage, history, allChunks, aiCalls>>

\* Delete: r.mutex.Lock()
DeleteLock(p, id) ==
    /\ Enter(p, "Delete", [NoLocal EXCEPT !.sid = id])
    /\ Lock(p)
    /\ UNCHANGED <<rankVars, streamVars, callVars>>
    /\ UNCHANGED <<sessions, used, now, nextId, lockLog, acked, cleared>>

\* Delete: lookup, delete(r.sessions, id)
Delete(p) ==
    /\ pc[p] = "Delete"
    /\ IF ~Exists(local[p].sid)
       THEN /\ Return(p, "Unlock", SessionNotFound("Delete"))
            /\ UNCHANGED sessions
       ELSE /\ sessions' = [x \in DOMAIN sessions \ {local[p].sid} |-> sessions[x]]
            /\ Return(p, "Unlock", [op |-> "Delete", err |-> "ok", count |-> 0])
    /\ Detach({local[p].sid})
    /\ UNCHANGED <<rankVars, callVars>>
    /\ UNCHANGED <<used, now, nextId, lockLog, acked, cleared>>

\* CleanupInactive: r.mutex.Lock(); the duration d counts units of
\* 1/UnitsPerSecond second
CleanupInactiveLock(p, d) ==
    /\ Enter(p, "CleanupInactive", [NoLocal EXCEPT !.dur = d])
    /\ Lock(p)
    /\ UNCHANGED <<rankVars, streamVars, callVars>>
    /\ UNCHANGED <<sessions, used, now, nextId, lockLog, acked, cleared>>

\* int64(duration.Seconds()): the whole seconds of a non-negative duration
WholeSeconds(d) == d \div UnitsPerSecond

\* the test CleanupInactive applies to one session
InactiveNever(lastActivity, threshold) == FALSE

InactiveAtOrBefore(lastActivity, threshold) == lastActivity <= threshold

Inactive(lastActivity, threshold) == lastActivity < threshold

\* CleanupInactive: threshold, the sweep over r.sessions, the count
CleanupInactive(p) ==
    /\ pc[p] = "CleanupInactive"
    /\ LET threshold == now - WholeSeconds(local[p].dur)
           gone == {id \in DOMAIN sessions :
                       Inactive(sessions[id].LastActivity, threshold)}
       IN  /\ sessions' = [x \in DOMAIN sessions \ gone |-> sessions[x]]
           /\ Return(p, "Unlock", [op |-> "CleanupInactive", err |-> "ok",
                         count |-> Cardinality(gone)])
           /\ Detach(gone)
    /\ UNCHANGED <<rankVars, callVars>>
    /\ UNCHANGED <<used, now, nextId, lockLog, acked, cleared>>

Next ==
    \/ Tick
    \/ \E p \in Procs :
          \/ \E d \in DocIds : CreateLock(p, d)
          \/ Create(p)
          \/ \E id \in SessionIds : GetLock(p, id)
          \/ Get(p)
          \/ \E id \in SessionIds, role \in Roles : AddMessageLock(p, id, role)
          \/ AddMessageLookup(p)
          \/ AddMessageAppend(p)
          \/ \E id \in SessionIds : ClearMessagesLock(p, id)
          \/ ClearMessages(p)
          \/ \E id \in SessionIds, d \in DocIds : AddDocumentLock(p, id, d)
          \/ AddDocument(p)
          \/ \E id \in SessionIds : GetDocumentsLock(p, id)
          \/ GetDocuments(p)
          \/ \E id \in SessionIds, d \in DocIds : RemoveDocumentLock(p, id, d)
          \/ RemoveDocument(p)
          \/ \E id \in SessionIds : DeleteLock(p, id)
          \/ Delete(p)
          \/ \E d \in 0..MaxDuration : CleanupInactiveLock(p, d)
          \/ CleanupInactive(p)
          \/ Unlock(p)
          \/ RUnlock(p)

Spec == Init /\ [][Next]_vars

\* The message operations of the repository, with the clock standing still
NextMessages ==
    \E p \in Procs :
       \/ \E d \in DocIds : CreateLock(p, d)
       \/ Create(p)
       \/ \E id \in SessionIds, role \in Roles : AddMessageLock(p, id, role)
       \/ AddMessageLookup(p)
       \/ AddMessageAppend(p)
       \/ \E id \in SessionIds : ClearMessagesLock(p, id)
       \/ ClearMessages(p)
       \/ \E id \in SessionIds, d \in DocIds : AddDocumentLock(p, id, d)
       \/ AddDocument(p)
       \/ \E id \in SessionIds : DeleteLock(p, id)
       \/ Delete(p)
       \/ Unlock(p)

SpecMessages == Init /\ [][NextMessages]_vars

\* documents that can be attached after the one a session is created with
AttachableDocs == DocIds \cup {"d3"}

\* One request attaches and removes documents while another creates
\* sessions and stores one message, as the clock moves
NextDocs ==
    \/ Tick
    \/ CreateLock("p1", "d1")
    \/ Create("p1")
    \/ nextId = 0 /\ \E id \in SessionIds : AddMessageLock("p1", id, "user")
    \/ AddMessageLookup("p1")
    \/ AddMessageAppend("p1")
    \/ Unlock("p1")
    \/ \E id \in SessionIds, d \in AttachableDocs :
          AddDocumentLock("p2", id, d)
    \/ AddDocument("p2")
    \/ \E id \in SessionIds, d \in AttachableDocs :
          RemoveDocumentLock("p2", id, d)
    \/ RemoveDocument("p2")
    \/ Unlock("p2")

SpecDocs == Init /\ [][NextDocs]_vars

\* One request creates sessions and lists their documents while another
\* attaches and removes documents
NextList ==
    \/ CreateLock("p1", "d1")
    \/ Create("p1")
    \/ \E id \in SessionIds : GetDocumentsLock("p1", id)
    \/ GetDocuments("p1")
    \/ Unlock("p1")
    \/ RUnlock("p1")
    \/ \E id \in SessionIds, d \in AttachableDocs :
          AddDocumentLock("p2", id, d)
    \/ AddDocument("p2")
    \/ \E id \in SessionIds, d \in AttachableDocs :
          RemoveDocumentLock("p2", id, d)
    \/ RemoveDocument("p2")
    \/ Unlock("p2")

SpecList == Init /\ [][NextList]_vars

\* Every repository call, made by one request after the other, on
\* sessions that exist, that were never created, that were deleted and that
\* the inactivity sweep removed; one message is stored at most
NextAbsent ==
    \/ Tick
    \/ CreateLock("p1", "d1")
    \/ Create("p1")
    \/ \E id \in SessionIds : GetLock("p1", id)
    \/ Get("p1")
    \/ nextId = 0 /\ \E id \in SessionIds : AddMessageLock("p1", id, "user")
    \/ AddMessageLookup("p1")
    \/ AddMessageAppend("p1")
    \/ \E id \in SessionIds : ClearMessagesLock("p1", id)
    \/ ClearMessages("p1")
    \/ \E id \in SessionIds, d \in DocIds : AddDocumentLock("p1", id, d)
    \/ AddDocument("p1")
    \/ \E id \in SessionIds, d \in DocIds : RemoveDocumentLock("p1", id, d)
    \/ RemoveDocument("p1")
    \/ \E id \in SessionIds : DeleteLock("p1", id)
    \/ Delete("p1")
    \/ \E d \in 0..MaxDuration : CleanupInactiveLock("p1", d)
    \/ CleanupInactive("p1")
    \/ Unlock("p1")
    \/ RUnlock("p1")

SpecAbsent == Init /\ [][NextAbsent]_vars

\* The inactivity sweep against sessions whose last activity moves with the clock
NextSweep ==
    \/ Tick
    \/ \E p \in Procs :
          \/ \E d \in DocIds : CreateLock(p, d)
          \/ Create(p)
          \/ \E id \in SessionIds : ClearMessagesLock(p, id)
          \/ ClearMessages(p)
          \/ \E d \in 0..MaxDuration : CleanupInactiveLock(p, d)
          \/ CleanupInactive(p)
          \/ Unlock(p)

SpecSweep == Init /\ [][NextSweep]_vars

\* The periodic inactivity sweep. The idle duration is a whole number of
\* seconds; the clock runs far enough past it for a session to expire.
IdleSeconds == 1

IdleDuration == IdleSeconds * UnitsPerSecond

SweepHorizon == 4

TimerClock == TickUntil(SweepHorizon)

\* the timer firing: the sweep is called with the configured idle duration
SweepTimer == CleanupInactiveLock("p2", IdleDuration)

\* requests that create sessions (while an unused id is left) and renew
\* their activity, and the timer
NextTimer ==
    \/ TimerClock
    \/ used # SessionIds /\ \E d \in DocIds : CreateLock("p1", d)
    \/ Create("p1")
    \/ \E id \in SessionIds : ClearMessagesLock("p1", id)
    \/ ClearMessages("p1")
    \/ Unlock("p1")
    \/ SweepTimer
    \/ CleanupInactive("p2")
    \/ Unlock("p2")

\* a goroutine inside a critical section runs on to its Unlock; the timer
\* fires again and again, and its Lock is granted once the mutex is
\* released often enough (sync.RWMutex does not starve a waiting writer)
SpecTimer ==
    /\ Init
    /\ [][NextTimer]_vars
    /\ \A p \in Procs : WF_vars(Unlock(p))
    /\ WF_vars(Create("p1"))
    /\ WF_vars(ClearMessages("p1"))
    /\ WF_vars(CleanupInactive("p2"))
    /\ SF_vars(SweepTimer)

----------------------------------------------------------------------------
(* VectorSearch.FindRelevantChunks *)

\* bounds on the ranker's inputs
MaxChunks == 3
MaxTopK == 3
MaxQueryLen == 3

\* strings are sequences of characters
QueryChars == {"a", "B", " "}
ChunkTexts == {<<"a">>, <<"b", " ", "a">>, <<"A", " ", "b">>, <<"c">>}

SeqsUpTo(S, n) == UNION {[1..k -> S] : k \in 0..n}

Min(a, b) == IF a < b THEN a ELSE b

\* strings.ToLower
LowerChar(c) == IF c = "A" THEN "a" ELSE IF c = "B" THEN "b" ELSE c

ToLower(s) == [i \in 1..Len(s) |-> LowerChar(s[i])]

\* strings.Contains
Contains(s, sub) ==
    \E i \in 0..(Len(s) - Len(sub)) : SubSeq(s, i + 1, i + Len(sub)) = sub

\* strings.Fields: the maximal runs of non-space characters
\* unicode.IsSpace, on the characters the model draws texts from
IsSpace(c) == c \in {" ", "\n", "\t"}

RECURSIVE FieldsFrom(_, _, _)
FieldsFrom(s, i, word) ==
    IF i > Len(s)
    THEN IF word = << >> THEN << >> ELSE <<word>>
    ELSE IF IsSpace(s[i])
         THEN IF word = << >>
              THEN FieldsFrom(s, i + 1, << >>)
              ELSE <<word>> \o FieldsFrom(s, i + 1, << >>)
         ELSE FieldsFrom(s, i + 1, Append(word, s[i]))

Fields(s) == FieldsFrom(s, 1, << >>)

\* the flat bonus for a chunk that contains the whole lowercased query
PhraseBonus == 5

\* the score FindRelevantChunks gives one chunk
Score(text, q) ==
    LET chunkLower == ToLower(text)
        queryLower == ToLower(q)
        queryWords == Fields(queryLower)
        hits == {i \in 1..Len(queryWords) : Contains(chunkLower, queryWords[i])}
    IN  Cardinality(hits) + (IF Contains(chunkLower, queryLower) THEN PhraseBonus ELSE 0)

Scores(pool, q) == [i \in 1..Len(pool) |-> Score(pool[i], q)]

Orderings(n) ==
    {f \in [1..n -> 1..n] : \A i, j \in 1..n : i # j => f[i] # f[j]}

\* sort.Slice with less = "score greater": the result is ordered by
\* descending score; sort.Slice does not promise to keep equal elements in
\* their original order, so every such ordering is a possible outcome
SortSliceOutcomes(scores) ==
    {f \in Orderings(Len(scores)) :
        \A i, j \in 1..Len(scores) : i < j => scores[f[i]] >= scores[f[j]]}

\* the selection loop: walk the sorted chunks, keep those with score > 0,
\* stop once len(relevant) >= topK
RECURSIVE TakeRelevant(_, _, _, _, _)
TakeRelevant(order, scores, k, i, acc) ==
    IF i > Len(order)
    THEN acc
    ELSE IF scores[order[i]] > 0
         THEN IF Len(acc) + 1 >= k
              THEN Append(acc, order[i])
              ELSE TakeRelevant(order, scores, k, i + 1, Append(acc, order[i]))
         ELSE TakeRelevant(order, scores, k, i + 1, acc)

\* the fallback chunks[:maxReturn]
FirstChunksIgnoringTopK(n, k) == [i \in 1..n |-> i]

FirstChunks(n, k) == [i \in 1..Min(k, n) |-> i]

\* what FindRelevantChunks returns, given the order sort.Slice produced
Selected(pool, q, k, order) ==
    IF Len(pool) = 0
    THEN << >>
    ELSE LET rel == TakeRelevant(order, Scores(pool, q), k, 1, << >>)
         IN  IF Len(rel) = 0 THEN FirstChunks(Len(pool), k) ELSE rel

\* the arguments of the call under observation
RankInputs ==
    /\ chunks \in SeqsUpTo(ChunkTexts, MaxChunks)
    /\ query \in SeqsUpTo(QueryChars, MaxQueryLen)
    /\ topK \in 0..MaxTopK
    /\ relevant = << >>
    /\ rankPc = "input"

\* one call FindRelevantChunks(chunks, query, topK)
FindRelevantChunks ==
    /\ rankPc = "input"
    /\ \E order \in SortSliceOutcomes(Scores(chunks, query)) :
          relevant' = Selected(chunks, query, topK, order)
    /\ rankPc' = "done"
    /\ UNCHANGED <<chunks, query, topK>>
    /\ UNCHANGED <<storeVars, streamVars, callVars>>

InitRank == InitStore /\ RankInputs /\ InitStream /\ InitCallsIdle

SpecRank == InitRank /\ [][FindRelevantChunks]_vars

----------------------------------------------------------------------------
(* ChatHandler.Stream, with the ChatUseCase.AskQuestion call it makes *)

\* bound on the length of an answer
MaxAnswerLen == 6

AnswerChars == {"a", " ", "\n"}

\* how many words splitIntoChunks groups into one chunk
WordsPerChunk == 3

IsSeparator(c) == c = " " \/ c = "\n"

\* first loop of splitIntoChunks: words, and each space or newline as a word
\* of its own
RECURSIVE SplitWords(_, _, _)
SplitWords(text, i, currentWord) ==
    IF i > Len(text)
    THEN IF currentWord # << >> THEN <<currentWord>> ELSE << >>
    ELSE IF IsSeparator(text[i])
         THEN (IF currentWord # << >> THEN <<currentWord>> ELSE << >>)
              \o <<<<text[i]>>>> \o SplitWords(text, i + 1, << >>)
         ELSE SplitWords(text, i + 1, Append(currentWord, text[i]))

\* second loop of splitIntoChunks: close a chunk at every third real word
RECURSIVE GroupWords(_, _, _, _)
GroupWords(ws, i, chunk, wordCount) ==
    IF i > Len(ws)
    THEN IF chunk # << >> THEN <<chunk>> ELSE << >>
    ELSE LET c == chunk \o ws[i]
             n == IF IsSeparator(ws[i][1]) THEN wordCount ELSE wordCount + 1
         IN  IF n >= WordsPerChunk
             THEN <<c>> \o GroupWords(ws, i + 1, << >>, 0)
             ELSE GroupWords(ws, i + 1, c, n)

splitIntoChunksDropsSeparators(text) ==
    GroupWords(SelectSeq(SplitWords(text, 1, << >>),
                         LAMBDA w : ~IsSeparator(w[1])), 1, << >>, 0)

splitIntoChunks(text) == GroupWords(SplitWords(text, 1, << >>), 1, << >>, 0)

\* c.SSEvent(kind, ...)
SSEvent(kind, content) == [kind |-> kind, content |-> content]

\* what Stream writes for a response whose Status is not STATUS_SUCCESS
FailureEventsWithToken(r) ==
    <<SSEvent("token", r.Code), SSEvent("error", r.Code)>>

FailureEvents(r) == <<SSEvent("error", r.Code)>>

\* Stream: ShouldBindJSON; a request without session_id or message is
\* answered 400 and no event stream is opened
StreamBind ==
    /\ streamPc = "idle"
    /\ nextId + 2 <= MaxMsgs
    /\ \/ /\ streamPc' = "rejected"
          /\ UNCHANGED streamSid
       \/ \E id \in SessionIds :
             /\ streamSid' = id
             /\ streamPc' = "AskGet"
    /\ UNCHANGED <<resp, words, events, askVars>>
    /\ UNCHANGED <<storeVars, rankVars, callVars>>

\* AskQuestion: sessionRepo.Get, one critical section under RLock
AskGet ==
    /\ streamPc = "AskGet"
    /\ mutex.writer = None
    /\ IF Exists(streamSid)
       THEN /\ streamPc' = "AskAddUser"
            /\ UNCHANGED resp
       ELSE /\ streamPc' = "respond"
            /\ resp' = [Status |-> "STATUS_NOT_FOUND", Code |-> "SESSION_NOT_FOUND",
                        Response |-> << >>]
    /\ UNCHANGED <<streamSid, words, events, askVars>>
    /\ UNCHANGED <<storeVars, rankVars, callVars>>

\* the whole of sessionRepo.AddMessage as one critical section under Lock
AddMessageCall(role, onOk, onErr) ==
    /\ mutex.writer = None
    /\ mutex.readers = {}
    /\ nextId' = nextId + 1
    /\ lockLog' = Append(lockLog, [sid |-> streamSid, n |-> nextId + 1])
    /\ IF Exists(streamSid)
       THEN /\ sessions' = [sessions EXCEPT
                  ![streamSid].Messages =
                      Appended(@, [Id |-> nextId + 1, Content |-> nextId + 1,
                                   Role |-> role, Timestamp |-> now]),
                  ![streamSid].LastActivity = now]
            /\ acked' = acked \cup {nextId + 1}
            /\ onOk
       ELSE /\ UNCHANGED <<sessions, acked>>
            /\ onErr
    /\ UNCHANGED <<used, mutex, pc, local, now, cleared>>

\* AskQuestion: store the user message
AskAddUser ==
    /\ streamPc = "AskAddUser"
    /\ AddMessageCall("user",
          /\ streamPc' = "AskHistory"
          /\ userMessage' = nextId + 1
          /\ UNCHANGED resp,
          /\ streamPc' = "respond"
          /\ resp' = [Status |-> "STATUS_ERROR", Code |-> "MESSAGE_STORAGE_ERROR",
                      Response |-> << >>]
          /\ UNCHANGED userMessage)
    /\ UNCHANGED <<streamSid, words, events, history, held, allChunks,
                   aiCalls>>
    /\ UNCHANGED <<rankVars, callVars>>

\* "User: "+msg.Content / "Assistant: "+msg.Content; a message of any
\* other role is left out
HistoryEntry(msg) ==
    [prefix |-> IF msg.Role = "user" THEN "User: " ELSE "Assistant: ",
     content |-> msg.Content]

\* the loop over session.Messages that skips index len(session.Messages)-1
BuildHistory(msgs) ==
    LET kept == SelectSeq(SubSeq(msgs, 1, Len(msgs) - 1),
                          LAMBDA m : m.Role \in {"user", "assistant"})
    IN  [k \in 1..Len(kept) |-> HistoryEntry(kept[k])]

\* the session as AskQuestion finds it through its session pointer
Session == IF Exists(streamSid) THEN sessions[streamSid] ELSE held

SessionMessages == Session.Messages

ChunksPerDoc == 2

\* doc.Chunks: the chunks of a document, by ChunkIndex
Chunks(doc) == [i \in 1..ChunksPerDoc |-> [doc |-> doc, ChunkIndex |-> i - 1]]

\* allChunks = append(allChunks, doc.Chunks...) over session.Documents
RECURSIVE AppendChunks(_)
AppendChunks(docs) ==
    IF docs = << >> THEN << >>
    ELSE Chunks(Head(docs)) \o AppendChunks(Tail(docs))

\* the pool: the chunks of session.Documents when there are any, else
\* those of session.Document when that is not nil
PooledChunks(session) ==
    IF Len(session.Documents) > 0 THEN AppendChunks(session.Documents)
    ELSE IF session.Document # None THEN Chunks(session.Document)
    ELSE << >>

\* AskQuestion: the chunk pool, ranking and context, then the history,
\* read from session.Documents and session.Messages without taking
\* r.mutex; the whole is one step
AskHistory ==
    /\ streamPc = "AskHistory"
    /\ allChunks' = PooledChunks(Session)
    /\ history' = BuildHistory(SessionMessages)
    /\ streamPc' = "AskAI"
    /\ UNCHANGED <<streamSid, resp, words, events, userMessage, held,
                   aiCalls>>
    /\ UNCHANGED <<storeVars, rankVars, callVars>>

\* the call is made again after an error
AfterAIErrorRetry == "AskAI"

\* if err != nil { return &proto.ChatResponse{Status: STATUS_ERROR, ...
AfterAIError == "respond"

\* AskQuestion: aiService.AnswerQuestion, which returns an answer or an
\* error
AskAI ==
    /\ streamPc = "AskAI"
    /\ aiCalls' = aiCalls + 1
    /\ \/ /\ streamPc' = AfterAIError
          /\ resp' = [Status |-> "STATUS_ERROR", Code |-> "AI_SERVICE_ERROR",
                      Response |-> << >>]
       \/ \E answer \in SeqsUpTo(AnswerChars, MaxAnswerLen) :
             /\ streamPc' = "AskAddAssistant"
             /\ resp' = [Status |-> "STATUS_SUCCESS", Code |-> None,
                         Response |-> answer]
    /\ UNCHANGED <<streamSid, words, events, userMessage, history, held,
                   allChunks>>
    /\ UNCHANGED <<storeVars, rankVars, callVars>>

\* AskQuestion: store the assistant message (a failure is only logged) and
\* return the successful response
AskAddAssistant ==
    /\ streamPc = "AskAddAssistant"
    /\ AddMessageCall("assistant", TRUE, TRUE)
    /\ streamPc' = "respond"
    /\ UNCHANGED <<streamSid, resp, words, events, askVars>>
    /\ UNCHANGED <<rankVars, callVars>>

\* Stream: an unsuccessful response becomes one error event and the handler
\* returns; a successful one is split into chunks
StreamRespond ==
    /\ streamPc = "respond"
    /\ IF resp.Status # "STATUS_SUCCESS"
       THEN /\ events' = events \o FailureEvents(resp)
            /\ streamPc' = "finished"
            /\ UNCHANGED words
       ELSE /\ words' = splitIntoChunks(resp.Response)
            /\ streamPc' = "tokens"
            /\ UNCHANGED events
    /\ UNCHANGED <<streamSid, resp, askVars>>
    /\ UNCHANGED <<storeVars, rankVars, callVars>>

\* Stream: one token event per chunk
StreamToken ==
    /\ streamPc = "tokens"
    /\ words # << >>
    /\ events' = Append(events, SSEvent("token", Head(words)))
    /\ words' = Tail(words)
    /\ UNCHANGED <<streamPc, streamSid, resp, askVars>>
    /\ UNCHANGED <<storeVars, rankVars, callVars>>

\* Stream: the completion event
StreamDone ==
    /\ streamPc = "tokens"
    /\ words = << >>
    /\ events' = Append(events, SSEvent("done", resp.Response))
    /\ streamPc' = "finished"
    /\ UNCHANGED <<streamSid, resp, words, askVars>>
    /\ UNCHANGED <<storeVars, rankVars, callVars>>

\* one streaming request, while other requests create and delete sessions
NextStream ==
    \/ StreamBind
    \/ AskGet
    \/ AskAddUser
    \/ AskHistory
    \/ AskAI
    \/ AskAddAssistant
    \/ StreamRespond
    \/ StreamToken
    \/ StreamDone
    \/ CreateLock("p1", "d1")
    \/ Create("p1")
    \/ \E id \in SessionIds : DeleteLock("p1", id)
    \/ Delete("p1")
    \/ Unlock("p1")

SpecStream == Init /\ [][NextStream]_vars

\* one AskQuestion up to its call of AnswerQuestion, while other requests
\* create sessions, store, clear and delete
NextAsk ==
    \/ StreamBind
    \/ AskGet
    \/ AskAddUser
    \/ AskHistory
    \/ CreateLock("p1", "d1")
    \/ Create("p1")
    \/ \E p \in Procs, id \in SessionIds :
          AddMessageLock(p, id, "user")
    \/ \E p \in Procs : AddMessageLookup(p)
    \/ \E p \in Procs : AddMessageAppend(p)
    \/ \E id \in SessionIds : ClearMessagesLock("p1", id)
    \/ ClearMessages("p1")
    \/ \E id \in SessionIds : DeleteLock("p1", id)
    \/ Delete("p1")
    \/ \E p \in Procs : Unlock(p)

SpecAsk == Init /\ [][NextAsk]_vars

\* one AskQuestion up to its call of AnswerQuestion, on sessions to which
\* another request attaches documents and from which it removes them
NextPool ==
    \/ StreamBind
    \/ AskGet
    \/ AskAddUser
    \/ AskHistory
    \/ CreateLock("p1", "d1")
    \/ Create("p1")
    \/ \E id \in SessionIds, d \in AttachableDocs :
          AddDocumentLock("p1", id, d)
    \/ AddDocument("p1")
    \/ \E id \in SessionIds, d \in AttachableDocs :
          RemoveDocumentLock("p1", id, d)
    \/ RemoveDocument("p1")
    \/ Unlock("p1")

SpecPool == Init /\ [][NextPool]_vars

----------------------------------------------------------------------------
(* VectorSearch.GetCitations *)

MaxSelected == 3
MaxPage == 2

\* a citation preview keeps at most this many bytes of the chunk text
PreviewLen == 100

Repeat(c, n) == [i \in 1..n |-> c]

\* chunk texts below, at and above the preview length
CiteTexts == {<<"a">>, Repeat("b", PreviewLen), Repeat("c", PreviewLen + 1)}

CiteChunks == [PageNumber : 0..MaxPage, Text : CiteTexts]

\* a page number of 0 is taken without the default of page 1
PageOfUnnormalized(chunk) == chunk.PageNumber

\* pageNum := chunk.PageNumber; if pageNum == 0 { pageNum = 1 }
PageOf(chunk) == IF chunk.PageNumber = 0 THEN 1 ELSE chunk.PageNumber

\* text[:100] + "..." when the text is longer than 100 bytes
Preview(text) ==
    IF Len(text) > PreviewLen
    THEN SubSeq(text, 1, PreviewLen) \o <<".", ".", ".">>
    ELSE text

\* the first loop: pageMap[pageNum] is set once, by the first chunk of
\* that page
RECURSIVE BuildPageMap(_, _, _)
BuildPageMap(cs, i, pageMap) ==
    IF i > Len(cs) THEN pageMap
    ELSE LET pageNum == PageOf(cs[i])
         IN  IF pageNum \in DOMAIN pageMap
             THEN BuildPageMap(cs, i + 1, pageMap)
             ELSE BuildPageMap(cs, i + 1,
                      [k \in DOMAIN pageMap \cup {pageNum} |->
                          IF k = pageNum THEN Preview(cs[i].Text)
                          ELSE pageMap[k]])

Citation(page, text) == [Page |-> page, Text |-> text]

\* for page, text := range pageMap: a Go map is ranged over in an order
\* the language leaves unspecified, so every order of the keys is possible
MapRangeOrders(keys) ==
    {f \in [1..Cardinality(keys) -> keys] :
        \A i, j \in DOMAIN f : i # j => f[i] # f[j]}

GetCitationsOutcomes(cs) ==
    IF Len(cs) = 0 THEN {<< >>}
    ELSE LET pageMap == BuildPageMap(cs, 1, << >>)
         IN  {[i \in DOMAIN order |->
                  Citation(order[i], pageMap[order[i]])] :
                  order \in MapRangeOrders(DOMAIN pageMap)}

CiteInputs ==
    /\ selectedChunks \in SeqsUpTo(CiteChunks, MaxSelected)
    /\ citations = << >>
    /\ citePc = "input"

GetCitations ==
    /\ citePc = "input"
    /\ citations' \in GetCitationsOutcomes(selectedChunks)
    /\ citePc' = "done"
    /\ UNCHANGED selectedChunks
    /\ UNCHANGED <<storeVars, rankVars, streamVars, listVars, textVars, aiVars,
                   mainVars>>

InitCite ==
    /\ InitStore /\ InitRankIdle /\ InitStream
    /\ CiteInputs /\ InitTextIdle /\ InitAIIdle /\ InitMainIdle /\ InitListIdle

SpecCite == InitCite /\ [][GetCitations]_vars

----------------------------------------------------------------------------
(* Claims about the session store *)

\* the AddMessage calls on session id that returned nil, in the order in
\* which they took r.mutex
Addressed(id) == SelectSeq(lockLog, LAMBDA e : e.sid = id /\ e.n \in acked)

\* C1: under any interleaving of AddMessage calls on two or more sessions,
\* a session that was never cleared holds exactly the messages addressed to
\* it, each once, in the order in which the calls took the exclusive lock.
C1_PerSessionLockOrder ==
    \A id \in DOMAIN sessions :
       id \notin cleared =>
          LET msgs == sessions[id].Messages
              want == Addressed(id)
          IN  /\ Len(msgs) = Len(want)
              /\ \A i \in 1..Len(msgs) :
                    /\ msgs[i].Content = want[i].n
                    /\ msgs[i].Id # 0

\* both sessions hold messages, and the calls on them alternated at the lock
C1_Witness ==
    /\ Len(lockLog) = 3
    /\ lockLog[1].sid = "s1" /\ lockLog[2].sid = "s2" /\ lockLog[3].sid = "s1"
    /\ acked = {1, 2, 3}
    /\ DOMAIN sessions = {"s1", "s2"}
    /\ cleared = {}
    /\ Len(sessions["s1"].Messages) = 2
    /\ Len(sessions["s2"].Messages) = 1

\* number of AddMessage calls on session id that returned nil
Adds(id) ==
    Cardinality({n \in acked :
                   \E i \in 1..Len(lockLog) : lockLog[i] = [sid |-> id, n |-> n]})

\* C2: on a session never cleared or deleted the message count equals the
\* number of successful AddMessage calls, and every AddMessage keeps the
\* stored messages as a prefix and adds exactly one.
C2_AppendOnly ==
    /\ [](\A id \in DOMAIN sessions :
             id \notin cleared => Len(sessions[id].Messages) = Adds(id))
    /\ [][\A p \in Procs :
             (pc[p] = "AddMessageAppend" /\ pc'[p] = "Unlock") =>
                LET id == local[p].sid
                IN  /\ id \in DOMAIN sessions'
                    /\ IsPrefix(sessions[id].Messages, sessions'[id].Messages)
                    /\ Len(sessions'[id].Messages) =
                          Len(sessions[id].Messages) + 1]_vars

\* a second message has just been appended behind a first one
C2_Witness ==
    \E p \in Procs :
       /\ pc[p] = "Unlock"
       /\ local[p].op = "AddMessage" /\ local[p].err = "ok"
       /\ local[p].sid \in DOMAIN sessions
       /\ local[p].sid \notin cleared
       /\ Len(sessions[local[p].sid].Messages) = 3
       /\ Adds(local[p].sid) = 3

\* C3: ClearMessages on an existing session empties its messages and leaves
\* its attached documents and every other session as they were.
C3_ClearKeepsDocuments ==
    [][\A p \in Procs :
          (pc[p] = "ClearMessages" /\ pc'[p] = "Unlock" /\ Exists(local[p].sid)) =>
             LET id == local[p].sid
             IN  /\ DOMAIN sessions' = DOMAIN sessions
                 /\ sessions'[id].Messages = << >>
                 /\ sessions'[id].Documents = sessions[id].Documents
                 /\ sessions'[id].Document = sessions[id].Document
                 /\ \A other \in DOMAIN sessions \ {id} :
                       sessions'[other] = sessions[other]]_vars

\* a session with two documents and stored messages has just been cleared,
\* next to another session that holds a message
C3_Witness ==
    \E p \in Procs :
       /\ pc[p] = "Unlock"
       /\ local[p].op = "ClearMessages" /\ local[p].err = "ok"
       /\ local[p].sid \in DOMAIN sessions
       /\ Adds(local[p].sid) >= 1
       /\ Len(sessions[local[p].sid].Documents) = 2
       /\ sessions[local[p].sid].Messages = << >>
       /\ \E other \in DOMAIN sessions \ {local[p].sid} :
             Len(sessions[other].Messages) >= 1

\* C4: CleanupInactive(d) removes exactly the sessions whose last activity
\* (in Unix seconds) is strictly older than now - d, for d any non-negative
\* duration, whole seconds or not; it leaves the others as they were and
\* returns the number it removed.
C4_SweepExact ==
    [][\A p \in Procs :
          (pc[p] = "CleanupInactive" /\ pc'[p] = "Unlock") =>
             LET d == local[p].dur
             IN  /\ DOMAIN sessions' \subseteq DOMAIN sessions
                 /\ \A id \in DOMAIN sessions :
                       (id \notin DOMAIN sessions') <=>
                          (sessions[id].LastActivity * UnitsPerSecond
                              < now * UnitsPerSecond - d)
                 /\ \A id \in DOMAIN sessions' : sessions'[id] = sessions[id]
                 /\ local'[p].count =
                       Cardinality(DOMAIN sessions \ DOMAIN sessions')]_vars

\* a sweep over a whole number of seconds has just removed one session and
\* kept one that sits exactly at the threshold
C4_Witness ==
    \E p \in Procs :
       /\ pc[p] = "Unlock"
       /\ local[p].op = "CleanupInactive"
       /\ local[p].count = 1
       /\ \E id \in DOMAIN sessions :
             sessions[id].LastActivity * UnitsPerSecond
                = now * UnitsPerSecond - local[p].dur

----------------------------------------------------------------------------
(* Claims about the ranker *)

RankScores == Scores(chunks, query)

NoChunkScores == \A i \in 1..Len(chunks) : RankScores[i] = 0

\* C7: when no chunk of a non-empty pool scores above 0, the result is the
\* first min(topK, len(chunks)) chunks in pooled order.
C7_FallbackFirstK ==
    (rankPc = "done" /\ Len(chunks) > 0 /\ NoChunkScores) =>
        /\ Len(relevant) = Min(topK, Len(chunks))
        /\ \A i \in 1..Len(relevant) : relevant[i] = i

\* three chunks, none matching a non-empty query, topK below the pool size
C7_Witness ==
    /\ rankPc = "done"
    /\ Len(chunks) = 3
    /\ Fields(query) # << >>
    /\ NoChunkScores
    /\ topK = 2
    /\ relevant = <<1, 2>>

\* C8: the selected chunks are ordered by descending score, and chunks of
\* equal score keep their relative pool order.
C8_StableDescending ==
    (rankPc = "done" /\ ~NoChunkScores) =>
        \A i, j \in 1..Len(relevant) :
           i < j =>
              \/ RankScores[relevant[i]] > RankScores[relevant[j]]
              \/ /\ RankScores[relevant[i]] = RankScores[relevant[j]]
                 /\ relevant[i] < relevant[j]

\* C10: at most topK chunks are returned, and when some chunk scores above 0
\* every returned chunk scores above 0.
C10_AtMostTopKPositive ==
    rankPc = "done" =>
        /\ Len(relevant) <= topK
        /\ ~NoChunkScores => \A i \in 1..Len(relevant) : RankScores[relevant[i]] > 0

----------------------------------------------------------------------------
(* Claims about the streaming handler *)

Terminal(e) == e.kind \in {"done", "error"}

TokenContents == SelectSeq(events, LAMBDA e : e.kind = "token")

RECURSIVE Concat(_)
Concat(ss) == IF ss = << >> THEN << >> ELSE Head(ss) \o Concat(Tail(ss))

\* C5: a stream ends with exactly one terminal event (done or error) and
\* writes nothing after it; token events come only before a done event; a
\* failed answer (session not found, storage or provider error) gives a
\* stream of one error event and no token.
C5_OneTerminalEvent ==
    /\ \A i \in 1..Len(events) :
          Terminal(events[i]) => (i = Len(events) /\ streamPc = "finished")
    /\ streamPc = "finished" =>
          /\ Len(events) >= 1
          /\ Terminal(events[Len(events)])
          /\ events[Len(events)].kind = "done" <=> resp.Status = "STATUS_SUCCESS"
          /\ resp.Status # "STATUS_SUCCESS" =>
                (Len(events) = 1 /\ events[1].kind = "error")
    /\ streamPc \in {"idle", "rejected"} => events = << >>

\* a finished stream of two tokens followed by done
C5_Witness ==
    /\ streamPc = "finished"
    /\ Len(events) = 3
    /\ events[1].kind = "token" /\ events[2].kind = "token"
    /\ events[3].kind = "done"

\* C6: the contents of the token events, concatenated in emission order,
\* are character for character the answer the done event carries, which is
\* the answer AskQuestion returned.
C6_TokensSpellAnswer ==
    (streamPc = "finished" /\ resp.Status = "STATUS_SUCCESS") =>
        /\ events[Len(events)].content = resp.Response
        /\ Concat([i \in 1..Len(TokenContents) |-> TokenContents[i].content])
              = events[Len(events)].content

\* a finished stream of several tokens for an answer with a space and a
\* newline in it
C6_Witness ==
    /\ streamPc = "finished"
    /\ resp.Status = "STATUS_SUCCESS"
    /\ Len(TokenContents) >= 2
    /\ \E i, j \in 1..Len(resp.Response) :
          resp.Response[i] = " " /\ resp.Response[j] = "\n"

----------------------------------------------------------------------------
(* PDFService.chunkText *)

MaxTextLen == 6
MaxChunkSize == 3

TextChars == {"a", "b", " ", "\n"}

\* strings.TrimSpace
RECURSIVE TrimSpace(_)
TrimSpace(s) ==
    IF s = << >> THEN s
    ELSE IF IsSpace(s[1]) THEN TrimSpace(Tail(s))
    ELSE IF IsSpace(s[Len(s)]) THEN TrimSpace(SubSeq(s, 1, Len(s) - 1))
    ELSE s

\* the room for the separator is not counted
OverflowsWithoutSeparator(chunkLen, wordLen, size) ==
    chunkLen + wordLen > size /\ chunkLen > 0

\* currentChunk.Len()+len(word)+1 > maxChunkSize && currentChunk.Len() > 0
Overflows(chunkLen, wordLen, size) ==
    chunkLen + wordLen + 1 > size /\ chunkLen > 0

\* the next word is written right behind the previous one
WithoutSeparator(currentChunk) == currentChunk

\* if currentChunk.Len() > 0 { currentChunk.WriteString(" ") }
WithSeparator(currentChunk) ==
    IF Len(currentChunk) > 0 THEN currentChunk \o <<" ">> ELSE currentChunk

\* the loop over words, then the flush of the last chunk
RECURSIVE ChunkWords(_, _, _, _, _)
ChunkWords(ws, i, result, currentChunk, size) ==
    IF i > Len(ws)
    THEN IF Len(currentChunk) > 0
         THEN Append(result, TrimSpace(currentChunk))
         ELSE result
    ELSE LET full == Overflows(Len(currentChunk), Len(ws[i]), size)
             flushed == IF full
                        THEN Append(result, TrimSpace(currentChunk))
                        ELSE result
             kept == IF full THEN << >> ELSE currentChunk
         IN  ChunkWords(ws, i + 1, flushed, WithSeparator(kept) \o ws[i],
                        size)

chunkText(text, size) ==
    IF Len(text) <= size THEN <<text>>
    ELSE ChunkWords(Fields(text), 1, << >>, << >>, size)

\* ProcessPDF: one proto.Chunk per chunk, ChunkIndex its position
ProtoChunks(cs) ==
    [i \in 1..Len(cs) |->
        [Text |-> cs[i], ChunkIndex |-> i - 1, PageNumber |-> 1]]

TextInputs ==
    /\ pdfText \in SeqsUpTo(TextChars, MaxTextLen)
    /\ maxChunkSize \in 1..MaxChunkSize
    /\ protoChunks = << >>
    /\ chunkPc = "input"

ChunkText ==
    /\ chunkPc = "input"
    /\ protoChunks' = ProtoChunks(chunkText(pdfText, maxChunkSize))
    /\ chunkPc' = "done"
    /\ UNCHANGED <<pdfText, maxChunkSize>>
    /\ UNCHANGED <<storeVars, rankVars, streamVars, listVars, citeVars, aiVars,
                   mainVars>>

InitText ==
    /\ InitStore /\ InitRankIdle /\ InitStream
    /\ InitCiteIdle /\ TextInputs /\ InitAIIdle /\ InitMainIdle /\ InitListIdle

SpecText == InitText /\ [][ChunkText]_vars

----------------------------------------------------------------------------
(* AIService.AnswerQuestion: PuterAIService, GroqAIServiceAdapter,
   MockAIService *)

MaxAnswerWords == 4
MaxHistory == 5

Providers == {"Puter", "Groq", "Mock"}

\* answers, questions and contexts are sequences of words; two adjacent
\* words stand for the words with one space between them
AIWords == {"NOT", "not", "found", "cannot", "find", "in", "the",
            "document", "available"}

\* strings.ToLower on a word
LowerWord(w) == IF w = "NOT" THEN "not" ELSE w

ToLowerWords(s) == [i \in 1..Len(s) |-> LowerWord(s[i])]

\* the words of AIWords of more than three bytes
LongerThan3(w) == w \in {"found", "cannot", "find", "document", "available"}

AIContexts == {<< >>, <<"the", "document">>, <<"NOT", "found">>}

HistoryEntries == {"User: q", "Assistant: a"}

\* the phrases PuterAIService.AnswerQuestion looks for
PuterPhrases == {<<"cannot", "find">>, <<"not", "in", "the", "document">>}

\* the phrases GroqAIServiceAdapter.AnswerQuestion looks for
GroqPhrases == {<<"not", "found">>, <<"not", "available">>,
                <<"cannot", "find">>}

ContainsAny(answer, phrases) ==
    \E ph \in phrases : Contains(ToLowerWords(answer), ph)

\* buildQuestionPrompt: the entries with i >= len(history)-4, in order
LastFour(entries) ==
    SelectSeq([i \in 1..Len(entries) |->
                  [i |-> i - 1, Role |-> None, Content |-> entries[i]]],
              LAMBDA e : e.i >= Len(entries) - 4)

PromptLines(entries) ==
    [k \in 1..Len(LastFour(entries)) |->
        [Role |-> None, Content |-> LastFour(entries)[k].Content]]

\* GroqAIServiceAdapter converts every history entry, the role taken from
\* the parity of its index; ChatWithContext appends them all
ChatHistory(entries) ==
    [k \in 1..Len(entries) |->
        [Role |-> IF (k - 1) % 2 = 1 THEN "assistant" ELSE "user",
         Content |-> entries[k]]]

\* MockAIService: the question words of more than three bytes that occur
\* in the context
MockMatches(context, question) ==
    {i \in 1..Len(question) :
        /\ LongerThan3(ToLowerWords(question)[i])
        /\ Contains(ToLowerWords(context), <<ToLowerWords(question)[i]>>)}

MockFoundAnswer(question) ==
    <<"Based on the document,">> \o question
        \o <<". The document mentions relevant information about this topic.">>

MockNotFoundAnswer ==
    <<"I", "cannot", "find", "this information in the document.">>

Returned(answer, found, err) ==
    /\ aiAnswer' = answer
    /\ answerFound' = found
    /\ aiErr' = err
    /\ aiPc' = "done"
    /\ UNCHANGED <<provider, aiContext, aiQuestion, aiHistory, backendReply>>
    /\ UNCHANGED <<storeVars, rankVars, streamVars, listVars, citeVars, textVars,
                   mainVars>>

PuterAnswerQuestion ==
    /\ aiPc = "input"
    /\ provider = "Puter"
    /\ promptHistory' = PromptLines(aiHistory)
    /\ \/ Returned(<< >>, FALSE, TRUE)
       \/ Returned(backendReply,
                   ~ContainsAny(backendReply, PuterPhrases), FALSE)

GroqAnswerQuestion ==
    /\ aiPc = "input"
    /\ provider = "Groq"
    /\ promptHistory' = ChatHistory(aiHistory)
    /\ \/ Returned(<< >>, FALSE, TRUE)
       \/ Returned(backendReply,
                   ~ContainsAny(backendReply, GroqPhrases), FALSE)

MockAnswerQuestion ==
    /\ aiPc = "input"
    /\ provider = "Mock"
    /\ promptHistory' = << >>
    /\ IF MockMatches(aiContext, aiQuestion) # {}
       THEN Returned(MockFoundAnswer(aiQuestion), TRUE, FALSE)
       ELSE Returned(MockNotFoundAnswer, FALSE, FALSE)

AnswerQuestion ==
    \/ PuterAnswerQuestion
    \/ GroqAnswerQuestion
    \/ MockAnswerQuestion

\* the remote providers get a reply from their backend, the mock gets a
\* question and a context to match
AIInputs(histories, texts) ==
    /\ provider \in Providers
    /\ aiHistory \in histories
    /\ IF provider = "Mock"
       THEN /\ aiQuestion \in texts
            /\ aiContext \in AIContexts
            /\ backendReply = << >>
       ELSE /\ aiQuestion = << >>
            /\ aiContext = << >>
            /\ backendReply \in texts
    /\ promptHistory = << >>
    /\ aiAnswer = << >>
    /\ answerFound = FALSE
    /\ aiErr = FALSE
    /\ aiPc = "input"

InitOthersIdle ==
    /\ InitStore /\ InitRankIdle /\ InitStream
    /\ InitCiteIdle /\ InitTextIdle /\ InitMainIdle /\ InitListIdle

InitGrounded ==
    InitOthersIdle /\ AIInputs({<< >>}, SeqsUpTo(AIWords, MaxAnswerWords))

SpecGrounded == InitGrounded /\ [][AnswerQuestion]_vars

\* the same call, over histories of every length up to MaxHistory
InitPrompt ==
    InitOthersIdle
        /\ AIInputs(SeqsUpTo(HistoryEntries, MaxHistory), {<<"found">>})

NextPrompt == AnswerQuestion

SpecPrompt == InitPrompt /\ [][NextPrompt]_vars

----------------------------------------------------------------------------
(* main: the choice of the AI service at process start *)

MaxRequests == 4

\* values of an API key variable; "" is an unset variable
Keys == {"", "key1", "key2"}

MainInputs ==
    /\ groqKey \in Keys
    /\ openaiKey \in Keys
    /\ bootKeys = << >>
    /\ aiService = None
    /\ mainPc = "start"
    /\ served = 0

\* main, up to "Services initialized successfully": Groq if its key is set,
\* else OpenAI if its key is set, else log.Fatal, which exits the process
main ==
    /\ mainPc = "start"
    /\ bootKeys' = <<groqKey, openaiKey>>
    /\ IF groqKey # ""
       THEN aiService' = "Groq" /\ mainPc' = "serving"
       ELSE IF openaiKey # ""
       THEN aiService' = "OpenAI" /\ mainPc' = "serving"
       ELSE aiService' = None /\ mainPc' = "exited"
    /\ UNCHANGED <<groqKey, openaiKey, served>>
    /\ UNCHANGED <<storeVars, rankVars, streamVars, listVars, citeVars, textVars, aiVars>>

\* the environment of the running process changes
Setenv ==
    /\ mainPc = "serving"
    /\ \E g \in Keys, o \in Keys :
          /\ <<g, o>> # <<groqKey, openaiKey>>
          /\ groqKey' = g
          /\ openaiKey' = o
    /\ UNCHANGED <<bootKeys, aiService, mainPc, served>>
    /\ UNCHANGED <<storeVars, rankVars, streamVars, listVars, citeVars, textVars, aiVars>>

\* a chat request is answered through the global aiService
handleChatMessage ==
    /\ mainPc = "serving"
    /\ served < MaxRequests
    /\ served' = served + 1
    /\ UNCHANGED <<groqKey, openaiKey, bootKeys, aiService, mainPc>>
    /\ UNCHANGED <<storeVars, rankVars, streamVars, listVars, citeVars, textVars, aiVars>>

InitMain ==
    /\ InitStore /\ InitRankIdle /\ InitStream
    /\ InitCiteIdle /\ InitTextIdle /\ InitAIIdle /\ MainInputs /\ InitListIdle

NextMain == main \/ Setenv \/ handleChatMessage

SpecMain == InitMain /\ [][NextMain]_vars

----------------------------------------------------------------------------
(* Claims about citations *)

CitedPages == {citations[i].Page : i \in 1..Len(citations)}

\* the page the k-th selected chunk counts for: page 0 counts as page 1
CitePage(k) ==
    IF selectedChunks[k].PageNumber = 0 THEN 1
    ELSE selectedChunks[k].PageNumber

\* C11: the citation list of one answer has no two entries with the same
\* page number, and it has an entry for the page of every selected chunk,
\* a page number of 0 counting as page 1
C11_UniquePagesCoverAll ==
    citePc = "done" =>
        /\ \A i, j \in 1..Len(citations) :
               i # j => citations[i].Page # citations[j].Page
        /\ \A k \in 1..Len(selectedChunks) : CitePage(k) \in CitedPages

\* selected chunks with a repeated page and a page number of 0 were cited
C11_Witness ==
    /\ citePc = "done"
    /\ Len(selectedChunks) = 3
    /\ selectedChunks[1].PageNumber = 2
    /\ selectedChunks[2].PageNumber = 0
    /\ selectedChunks[3].PageNumber = 2
    /\ CitedPages = {1, 2}

\* the positions of the selected chunks that are the first of their page
FirstOfPage ==
    SelectSeq([k \in 1..Len(selectedChunks) |-> k],
        LAMBDA k : \A m \in 1..(k - 1) : CitePage(m) # CitePage(k))

\* C12: the citations are an ordered sequence: one entry per page, in the
\* order in which the pages first occur among the selected chunks, each
\* with the preview of the first selected chunk of that page
C12_FirstOccurrenceOrder ==
    citePc = "done" =>
        /\ Len(citations) = Len(FirstOfPage)
        /\ \A i \in 1..Len(citations) :
               LET c == selectedChunks[FirstOfPage[i]]
               IN  /\ citations[i].Page = CitePage(FirstOfPage[i])
                   /\ citations[i].Text =
                          (IF Len(c.Text) > 100
                           THEN SubSeq(c.Text, 1, 100) \o <<".", ".", ".">>
                           ELSE c.Text)

----------------------------------------------------------------------------
(* Claims about chunking *)

\* the texts of the chunks of the document, by ChunkIndex
DocChunkTexts == [i \in 1..Len(protoChunks) |-> protoChunks[i].Text]

HasSpace(s) == \E i \in 1..Len(s) : s[i] \in {" ", "\n", "\t"}

\* C13: for a non-empty text and a size of at least 1, no chunk is empty,
\* and every chunk is at most size long unless it is one single
\* whitespace-delimited token that is itself longer than size
C13_ChunksNonEmptyAndBounded ==
    (chunkPc = "done" /\ Len(pdfText) > 0 /\ maxChunkSize >= 1) =>
        \A i \in 1..Len(protoChunks) :
            LET c == protoChunks[i].Text
            IN  /\ Len(c) > 0
                /\ Len(c) <= maxChunkSize \/ ~HasSpace(c)

\* a text was cut into a chunk that fits and an oversized token
C13_Witness ==
    /\ chunkPc = "done"
    /\ Len(pdfText) > 0
    /\ \E i, j \in 1..Len(protoChunks) :
          /\ Len(protoChunks[i].Text) <= maxChunkSize
          /\ Len(protoChunks[j].Text) > maxChunkSize

RECURSIVE JoinWithSpace(_)
JoinWithSpace(ss) ==
    IF ss = << >> THEN << >>
    ELSE IF Len(ss) = 1 THEN ss[1]
    ELSE ss[1] \o <<" ">> \o JoinWithSpace(Tail(ss))

\* maximal runs of non-whitespace characters of s, in order
Tokens(s) ==
    LET starts == SelectSeq([i \in 1..Len(s) |-> i],
                     LAMBDA i : ~HasSpace(<<s[i]>>)
                                /\ (i = 1 \/ HasSpace(<<s[i - 1]>>)))
        EndOf(b) == CHOOSE e \in b..Len(s) :
                        /\ \A k \in b..e : ~HasSpace(<<s[k]>>)
                        /\ (e = Len(s) \/ HasSpace(<<s[e + 1]>>))
    IN  [n \in 1..Len(starts) |-> SubSeq(s, starts[n], EndOf(starts[n]))]

\* C14: the whitespace-delimited tokens of the chunks joined by single
\* spaces are the tokens of the text, in the same order and with the same
\* multiplicity
C14_RejoinKeepsTokens ==
    chunkPc = "done" =>
        Tokens(JoinWithSpace(DocChunkTexts)) = Tokens(pdfText)

\* a text with leading and repeated whitespace went into several chunks
C14_Witness ==
    /\ chunkPc = "done"
    /\ Len(protoChunks) >= 2
    /\ Len(pdfText) > 0 /\ HasSpace(<<pdfText[1]>>)
    /\ \E i \in 1..(Len(pdfText) - 1) :
          pdfText[i] = "\n" /\ pdfText[i + 1] = " "
    /\ \E i, j \in 1..Len(protoChunks) :
          /\ "a" \in Range(protoChunks[i].Text)
          /\ "b" \in Range(protoChunks[j].Text)

----------------------------------------------------------------------------
(* Claims about the answer providers *)

\* the phrases by which an answer says that the document does not hold it
MarkerPhrases == {<<"cannot", "find">>, <<"not", "in", "the", "document">>,
                  <<"not", "found">>, <<"not", "available">>}

HasMarker(answer) ==
    \E ph \in MarkerPhrases :
        \E i \in 1..(Len(answer) - Len(ph) + 1) :
            \A k \in 1..Len(ph) :
                answer[i + k - 1] = ph[k]
                \/ (answer[i + k - 1] = "NOT" /\ ph[k] = "not")

\* C15: for every provider and every answer returned without error, the
\* flag is false if the answer contains, in any letter case, one of the
\* phrases "cannot find", "not in the document", "not found",
\* "not available", and true otherwise
C15_FlagFollowsPhrases ==
    (aiPc = "done" /\ ~aiErr) => (answerFound = ~HasMarker(aiAnswer))

\* C17: for every provider, the request sent to the backend carries at
\* most the 4 most recent entries of the history, in their original order
C17_AtMostLastFour ==
    aiPc = "done" =>
        /\ Len(promptHistory) <= 4
        /\ \A k \in 1..Len(promptHistory) :
               promptHistory[k].Content =
                   aiHistory[Len(aiHistory) - Len(promptHistory) + k]

----------------------------------------------------------------------------
(* Claims about AskQuestion *)

\* C16: the history passed to AnswerQuestion holds the messages stored in
\* the session before the current turn, and never the user message the
\* current turn appended, also while other requests on the same session
\* run concurrently
C16_HistoryIsPriorMessages ==
    streamPc = "AskAI" =>
        LET prior == SelectSeq(SessionMessages,
                               LAMBDA m : m.Id < userMessage)
        IN  /\ \A k \in 1..Len(history) : history[k].content # userMessage
            /\ Len(history) = Len(prior)
            /\ \A k \in 1..Len(prior) : history[k].content = prior[k].Content

----------------------------------------------------------------------------
(* Claims about the attached documents *)

\* C18: AddDocument on an existing session rejects a document whose id is
\* already attached and then leaves the session's documents, messages and
\* last activity as they were; otherwise it appends the document as the
\* last attached one.  So no session ever holds two documents with the
\* same id.
C18_AddDocumentRejectsDuplicates ==
    /\ [][\A p \in Procs :
            (pc[p] = "AddDocument" /\ pc'[p] = "Unlock"
                 /\ local[p].sid \in DOMAIN sessions) =>
               LET id == local[p].sid
                   docs == sessions[id].Documents
               IN  IF \E i \in 1..Len(docs) : docs[i] = local[p].doc
                   THEN /\ local'[p].err = "AlreadyAttached"
                        /\ sessions' = sessions
                   ELSE /\ local'[p].err = "ok"
                        /\ sessions'[id].Documents = docs \o <<local[p].doc>>
                        /\ sessions'[id].Messages = sessions[id].Messages]_vars
    /\ [](\A id \in DOMAIN sessions :
             \A i, j \in 1..Len(sessions[id].Documents) :
                 i # j => sessions[id].Documents[i] # sessions[id].Documents[j])

\* an attached document was offered again to a session that holds a
\* message and was last active before now, and the call was rejected
C18_Witness ==
    \E p \in Procs :
       /\ pc[p] = "Unlock"
       /\ local[p].op = "AddDocument" /\ local[p].err = "AlreadyAttached"
       /\ local[p].sid \in DOMAIN sessions
       /\ Len(sessions[local[p].sid].Documents) >= 2
       /\ sessions[local[p].sid].Documents[2] = local[p].doc
       /\ Len(sessions[local[p].sid].Messages) = 1
       /\ sessions[local[p].sid].LastActivity < now

\* C19: RemoveDocument on an existing session removes exactly the one
\* attached document with that id, keeps the other attached documents in
\* their order and leaves the messages as they were; when no attached
\* document has that id it fails and changes nothing
C19_RemoveDocumentExact ==
    [][\A p \in Procs :
          (pc[p] = "RemoveDocument" /\ pc'[p] = "Unlock"
               /\ local[p].sid \in DOMAIN sessions) =>
             LET id == local[p].sid
                 docs == sessions[id].Documents
             IN  IF \E i \in 1..Len(docs) : docs[i] = local[p].doc
                 THEN /\ local'[p].err = "ok"
                      /\ sessions'[id].Documents =
                            SelectSeq(docs, LAMBDA d : d # local[p].doc)
                      /\ Len(sessions'[id].Documents) = Len(docs) - 1
                      /\ sessions'[id].Messages = sessions[id].Messages
                      /\ \A other \in DOMAIN sessions \ {id} :
                            sessions'[other] = sessions[other]
                      /\ DOMAIN sessions' = DOMAIN sessions
                 ELSE /\ local'[p].err = "DocNotFound"
                      /\ sessions' = sessions]_vars

\* the middle one of three attached documents was removed from a session
\* that holds a message
C19_Witness ==
    \E p \in Procs :
       /\ pc[p] = "Unlock"
       /\ local[p].op = "RemoveDocument" /\ local[p].err = "ok"
       /\ local[p].sid \in DOMAIN sessions
       /\ local[p].doc = "d2"
       /\ sessions[local[p].sid].Documents = <<"d1", "d3">>
       /\ Len(sessions[local[p].sid].Messages) = 1

----------------------------------------------------------------------------
(* Claims about absent sessions *)

\* C20: Get, AddMessage, AddDocument, RemoveDocument, ClearMessages and
\* Delete, addressed to a session id that is not in the store (never
\* created, deleted, or removed by CleanupInactive), return NotFound and
\* leave the whole store as it was; the session is not created
C20_AbsentSessionNotFound ==
    [][\A p \in Procs :
          (/\ pc[p] \in {"Get", "AddMessage", "AddDocument",
                         "RemoveDocument", "ClearMessages", "Delete"}
           /\ pc'[p] # pc[p]
           /\ local[p].sid \notin DOMAIN sessions) =>
             /\ pc'[p] \in {"Unlock", "RUnlock"}
             /\ local'[p].err = "NotFound"
             /\ sessions' = sessions
             /\ used' = used]_vars

\* a call on a session that was created and is gone has returned NotFound
\* while another session, holding a message, is in the store
C20_Witness ==
    \E p \in Procs :
       /\ pc[p] = "Unlock"
       /\ local[p].op = "RemoveDocument" /\ local[p].err = "NotFound"
       /\ local[p].sid \in used \ DOMAIN sessions
       /\ \E other \in DOMAIN sessions : Len(sessions[other].Messages) = 1

----------------------------------------------------------------------------
(* Claims about a turn of AskQuestion *)

\* the Ids of the messages the session of the request holds
StoredIds ==
    IF Exists(streamSid)
    THEN {sessions[streamSid].Messages[i].Id :
             i \in 1..Len(sessions[streamSid].Messages)}
    ELSE {}

\* C21: an AskQuestion that returns an error leaves the messages of the
\* session as they were before the call: the user message of the failed
\* turn is not in the store
C21_FailedTurnLeavesNoMessage ==
    (streamPc \in {"respond", "finished"} /\ resp.Status # "STATUS_SUCCESS")
        => userMessage \notin StoredIds

----------------------------------------------------------------------------
(* Claims about the choice of provider *)

\* C23: the provider is chosen once, at process start; a process started
\* with no API key set runs with the offline stand-in as its provider and
\* keeps it for every later request
C23_OfflineStandInWithoutKey ==
    (mainPc \notin {"idle", "start"} /\ bootKeys = <<"", "">>) =>
        (mainPc = "serving" /\ aiService = "Mock")

----------------------------------------------------------------------------
(* Claims about the chunk pool *)

\* C24: the chunks AskQuestion ranks are the chunks of the documents
\* attached to the session at that moment, document after document in
\* the order of attachment and by chunk index within a document; no chunk
\* of a removed document is among them
C24_PoolIsAttachedDocuments ==
    [][(streamPc = "AskHistory" /\ streamPc' = "AskAI"
            /\ streamSid \in DOMAIN sessions) =>
          allChunks' = AppendChunks(sessions[streamSid].Documents)]_vars

----------------------------------------------------------------------------
(* Claims about the lock around session state *)

\* C25: session state is read and written only under r.mutex: when
\* AskQuestion reads session.Documents and session.Messages, no other
\* request holds the write lock for a write to that session that it has
\* begun and not completed
C25_ReadsUnderLock ==
    [][(streamPc = "AskHistory" /\ streamPc' = "AskAI") =>
          ~ \E p \in Procs :
                /\ mutex.writer = p
                /\ local[p].sid = streamSid
                /\ pc[p] \in {"AddMessage", "AddMessageAppend",
                              "ClearMessages"}]_vars

----------------------------------------------------------------------------
(* Claims about the periodic sweep *)

\* a session whose last activity lies more than the idle duration back
Expired(id) ==
    /\ id \in DOMAIN sessions
    /\ now - sessions[id].LastActivity > IdleSeconds

----------------------------------------------------------------------------
(* Claims about the turn of a successful AskQuestion *)

\* C27: when AskQuestion returns its successful response, the history of
\* the session holds the user message of the turn followed by the
\* assistant message of the turn, whatever other requests did meanwhile
C27_SuccessfulTurnStored ==
    [][(streamPc = "AskAddAssistant" /\ streamPc' = "respond") =>
          /\ streamSid \in DOMAIN sessions'
          /\ LET m == sessions'[streamSid].Messages
             IN  /\ Len(m) >= 2
                 /\ m[Len(m) - 1].Id = userMessage
                 /\ m[Len(m) - 1].Role = "user"
                 /\ m[Len(m)].Role = "assistant"]_vars

----------------------------------------------------------------------------
(* Claims about the roles of the history sent to Groq *)

\* the role of the stored message a history entry was built from
RoleOfEntry(entry) == IF entry = "User: q" THEN "user" ELSE "assistant"

\* a history that sessions reach turn by turn: each turn is a user message,
\* followed by an assistant message unless the turn failed
TurnShaped(entries) ==
    \A k \in 1..Len(entries) :
        entries[k] = "Assistant: a" => (k > 1 /\ entries[k - 1] = "User: q")

\* C28: every history entry the Groq provider is handed carries the role
\* of the stored message it was built from, also when a failed turn left
\* two user messages next to each other
C28_GroqRolesFollowMessages ==
    (aiPc = "done" /\ provider = "Groq" /\ TurnShaped(aiHistory)) =>
        \A k \in 1..Len(promptHistory) :
            promptHistory[k].Role = RoleOfEntry(promptHistory[k].Content)

----------------------------------------------------------------------------
(* Claims about the primary document *)

\* C29: session.Document, the document GenerateSummary summarises and
\* History reports as pdf_info, is one of the documents attached to the
\* session
C29_PrimaryDocumentAttached ==
    \A id \in DOMAIN sessions :
        \E k \in 1..Len(sessions[id].Documents) :
            sessions[id].Documents[k] = sessions[id].Document

----------------------------------------------------------------------------
(* Claims about the list GetDocuments returns *)

\* C30: the list a call of GetDocuments returned keeps the contents it had
\* when it was returned, whatever AddDocument and RemoveDocument do later
C30_ReturnedListIsSnapshot ==
    docsReturned.docs = docsReturned.snapshot

====
